---- MODULE Spec2Model ----
\* Data-access core of main.py: the Book repository, the transactional demo,
\* the lazy / eager relationship loaders and the aggregate query, over one
\* in-memory SQLite store reached through a single pooled connection.
EXTENDS Integers, FiniteSets, Sequences, TLC

\* ---------------------------------------------------------------- bounds
MaxId == 4         \* highest book id the store hands out
MaxStartups == 2   \* times the startup handler runs in one process
MaxCalls == 2      \* calls the interleaved request threads make in a run

\* ---------------------------------------------------------------- values
NULL == 0                       \* SQL NULL in an integer column
NoTitle == "None"               \* title=None passed to Book(...)
Procs == {"p1", "p2"}           \* callers (request threads)
TitleInputs == {"T", NoTitle}
AuthorIdInputs == {NULL, 1}
BookIdInputs == 1..MaxId

VARIABLES db, txn, pc, sess, arg, loc, ret, pre, nOpen, added, startups, serial, calls

vars == <<db, txn, pc, sess, arg, loc, ret, pre, nOpen, added, startups, serial, calls>>

\* ---------------------------------------------------------------- store
EmptyStore == [authors |-> {}, books |-> {}, users |-> {}]

Max(S) == CHOOSE x \in S : \A y \in S : y <= x

\* INTEGER PRIMARY KEY: the store assigns max(rowid) + 1
NextId(rows) == IF rows = {} THEN 1 ELSE Max({r.id : r \in rows}) + 1

\* nullable=False on Book.title
TitleOk(title) == title # NoTitle

InsertAuthor(s, name) ==
    [s EXCEPT !.authors = @ \cup {[id |-> NextId(s.authors), name |-> name]}]

InsertBook(s, title, author_id) ==
    [s EXCEPT !.books = @ \cup
        {[id |-> NextId(s.books), title |-> title, author_id |-> author_id]}]

InsertUser(s, username, email) ==
    [s EXCEPT !.users = @ \cup
        {[id |-> NextId(s.users), username |-> username, email |-> email]}]

\* mutant: the DELETE filters on the wrong column
DeleteBookRow_WrongColumn(s, book_id) ==
    [s EXCEPT !.books = {b \in @ : b.id # book_id /\ b.author_id # book_id}]

DeleteBookRow(s, book_id) ==
    [s EXCEPT !.books = {b \in @ : b.id # book_id}]

GetBook(s, book_id) == {b \in s.books : b.id = book_id}

\* mutant: author_id = NULL compared with "=", which matches no row
BooksByAuthor_NullNeverMatches(s, author_id) ==
    {b \in s.books : b.author_id = author_id /\ author_id # NULL}

\* Book.author_id == author_id (None compiles to IS NULL)
BooksByAuthor(s, author_id) == {b \in s.books : b.author_id = author_id}

\* ---------------------------------------------------------------- queries
\* [b.title for b in a.books]: the titles with their multiplicities
TitleBag(books) ==
    [t \in {b.title : b \in books} |-> Cardinality({b \in books : b.title = t})]

AuthorOut(a, books) == [id |-> a.id, name |-> a.name, books |-> TitleBag(books)]

\* lazy="select": one SELECT ... WHERE author_id = :id per accessed author
LazyBooks(s, a) == BooksByAuthor(s, a.id)

\* the whole lazy read: the authors, then the books of each
LazyLoad(s) == {AuthorOut(a, LazyBooks(s, a)) : a \in s.authors}

\* the all-NULL book columns of an unmatched LEFT OUTER JOIN row
NoBook == [id |-> NULL, title |-> NoTitle, author_id |-> NULL]

\* mutant: an inner join in place of the outer one
EagerJoinRows_Inner(s) ==
    {r \in s.authors \X s.books : r[2].author_id = r[1].id}

\* joinedload(Author.books): authors LEFT OUTER JOIN books
EagerJoinRows(s) ==
    {r \in s.authors \X s.books : r[2].author_id = r[1].id}
    \cup {<<a, NoBook>> : a \in {x \in s.authors : BooksByAuthor(s, x.id) = {}}}

\* the ORM folds the joined rows into one Author per identity
EagerLoad(s) ==
    LET rows == EagerJoinRows(s)
    IN  {AuthorOut(a, {r[2] : r \in {x \in rows : x[1] = a /\ x[2].id # NULL}})
            : a \in {r[1] : r \in rows}}

\* authors JOIN books ON authors.id = books.author_id
InnerJoinRows(s) ==
    {r \in s.authors \X s.books : r[2].author_id = r[1].id}

\* SELECT name, count(books.id) ... GROUP BY authors.name
BookCounts(s) ==
    LET rows == InnerJoinRows(s)
    IN  {[author |-> n, book_count |-> Cardinality({r \in rows : r[1].name = n})]
            : n \in {r[1].name : r \in rows}}

\* ---------------------------------------------------------------- sessions
NoSession == [state |-> "NONE", open |-> FALSE, conn |-> FALSE,
              pending |-> <<>>, trace |-> <<>>]

\* session_factory(): a new unit of work, no connection checked out yet
OpenSession == [state |-> "OPEN", open |-> TRUE, conn |-> FALSE,
                pending |-> <<>>, trace |-> <<>>]

Log(s, e) == [s EXCEPT !.trace = Append(@, e)]

\* session.add(obj): the object is pending in the session
Stage(s, obj) == Log([s EXCEPT !.pending = Append(@, obj)], "add")

\* the SQL of one pending object
FlushOne(t, obj) ==
    IF obj.table = "books" THEN InsertBook(t, obj.a, obj.b)
    ELSE InsertUser(t, obj.a, obj.b)

RECURSIVE FlushAll(_, _)
FlushAll(t, pending) ==
    IF pending = <<>> THEN t
    ELSE FlushAll(FlushOne(t, Head(pending)), Tail(pending))

\* mutant: session.add flushes at once
SqlOnAdd_Autoflush(t, obj) == FlushOne(t, obj)

\* SQL that session.add sends to the connection: none, the flush is deferred
SqlOnAdd(t, obj) == t

\* mutant: the COMMIT is lost
CommitStore_Lost(d, t) == d

\* COMMIT on the pooled connection: the connection's work becomes durable
CommitStore(d, t) == t

\* ROLLBACK on the pooled connection (also the pool's reset on every release
\* of the one StaticPool connection)
RollbackStore(d, t) == d

\* the connection's view after a session that may hold it lets go of it
Release(s, d, t) == IF s.conn THEN RollbackStore(d, t) ELSE t

\* mutant: close() only on the path that committed (no finally)
CloseSession_OnlyCommitted(s) ==
    IF s.state = "COMMITTED"
    THEN Log([s EXCEPT !.open = FALSE, !.conn = FALSE], "close")
    ELSE s

\* session.close()
CloseSession(s) == Log([s EXCEPT !.open = FALSE, !.conn = FALSE], "close")

\* mutant: the scope commits what was staged although the block raised
ExitOnError_Commits(d, t, s) ==
    [db |-> FlushAll(t, s.pending), txn |-> FlushAll(t, s.pending)]

\* leaving `with session.begin()` by an exception: the staged objects are
\* dropped and the transaction rolled back
ExitOnError(d, t, s) == [db |-> d, txn |-> Release(s, d, t)]

\* ---------------------------------------------------------------- state
NoArg == [op |-> "none", title |-> NoTitle, author_id |-> NULL, book_id |-> NULL]
NoLoc == [todo |-> {}, acc |-> {}, n |-> NULL]
NoRet == [kind |-> "none", val |-> NULL]
Raised == [kind |-> "raise", val |-> NULL]

InitCommon ==
    /\ db = EmptyStore
    /\ txn = EmptyStore
    /\ pc = [p \in Procs |-> "idle"]
    /\ sess = [p \in Procs |-> NoSession]
    /\ arg = [p \in Procs |-> NoArg]
    /\ loc = [p \in Procs |-> NoLoc]
    /\ ret = [p \in Procs |-> NoRet]
    /\ pre = [p \in Procs |-> EmptyStore]
    /\ nOpen = 0
    /\ added = {}
    /\ startups = 0
    /\ calls = 0

\* one caller at a time
Init == InitCommon /\ serial = TRUE

\* request threads interleave
InitConc == InitCommon /\ serial = FALSE

\* ids the calls in flight will still ask the store for
Reserved == Cardinality({q \in Procs : pc[q] = "add_flush"})

Room(n) ==
    /\ NextId(txn.books) + Reserved + n - 1 <= MaxId
    /\ NextId(db.books) + Reserved + n - 1 <= MaxId

\* the callers: a single thread, or every request thread
Callers == IF serial THEN {"p1"} ELSE Procs

StartupPcs == {"st_author", "st_books", "st_commit", "st_close"}

\* requests are served once the startup handler is through
CanCall(p) ==
    /\ p \in Callers
    /\ pc[p] = "idle"
    /\ calls < MaxCalls
    /\ \A q \in Procs : pc[q] \notin StartupPcs

\* entry of a handler that opens a session
Enter(p, a, s, next) ==
    /\ CanCall(p)
    /\ pc' = [pc EXCEPT ![p] = next]
    /\ arg' = [arg EXCEPT ![p] = a]
    /\ sess' = [sess EXCEPT ![p] = s]
    /\ pre' = [pre EXCEPT ![p] = txn]
    /\ nOpen' = nOpen + 1
    /\ calls' = IF serial THEN calls ELSE calls + 1
    /\ UNCHANGED <<db, loc, ret, added, serial>>

\* finally: session.close()
Finally(p, at) ==
    /\ pc[p] = at
    /\ txn' = Release(sess[p], db, txn)
    /\ sess' = [sess EXCEPT ![p] = CloseSession(@)]
    /\ nOpen' = IF sess[p].open /\ ~CloseSession(sess[p]).open
                THEN nOpen - 1 ELSE nOpen
    /\ pc' = [pc EXCEPT ![p] = "done"]
    /\ UNCHANGED <<db, arg, loc, ret, pre, startups, serial, calls>>

\* control is back with the caller
Return(p) ==
    /\ pc[p] = "done"
    /\ pc' = [pc EXCEPT ![p] = "idle"]
    /\ sess' = [sess EXCEPT ![p] = NoSession]
    /\ arg' = [arg EXCEPT ![p] = NoArg]
    /\ loc' = [loc EXCEPT ![p] = NoLoc]
    /\ ret' = [ret EXCEPT ![p] = NoRet]
    /\ pre' = [pre EXCEPT ![p] = EmptyStore]
    /\ UNCHANGED <<db, txn, nOpen, added, startups, serial, calls>>

\* ---------------------------------------------------------------- add_book
AddBookCall(p, title, author_id) ==
    LET obj == [table |-> "books", a |-> title, b |-> author_id]
    IN  /\ Room(1)
        /\ Enter(p, [NoArg EXCEPT !.op = "add_book", !.title = title,
                                  !.author_id = author_id],
                 Stage(OpenSession, obj), "add_flush")
        /\ txn' = SqlOnAdd(txn, obj)
        /\ UNCHANGED startups

\* session.commit(), first half: the flush sends the INSERT
AddBookFlush(p) ==
    /\ pc[p] = "add_flush"
    /\ IF TitleOk(sess[p].pending[1].a)
       THEN /\ txn' = FlushAll(txn, sess[p].pending)
            /\ loc' = [loc EXCEPT ![p].n = NextId(txn.books)]
            /\ sess' = [sess EXCEPT ![p] =
                  Log([@ EXCEPT !.conn = TRUE, !.pending = <<>>], "flush")]
            /\ pc' = [pc EXCEPT ![p] = "add_commit"]
       ELSE \* IntegrityError: the failed flush rolls the connection back
            /\ txn' = RollbackStore(db, txn)
            /\ loc' = loc
            /\ sess' = [sess EXCEPT ![p] = Log(@, "flush")]
            /\ pc' = [pc EXCEPT ![p] = "add_except"]
    /\ UNCHANGED <<db, arg, ret, pre, nOpen, added, startups, serial, calls>>

\* session.commit(), second half: COMMIT, then the connection is released
AddBookCommit(p) ==
    /\ pc[p] = "add_commit"
    /\ LET d == CommitStore(db, txn)
       IN  db' = d /\ txn' = RollbackStore(d, txn)
    /\ sess' = [sess EXCEPT ![p] =
          Log([@ EXCEPT !.state = "COMMITTED", !.conn = FALSE], "commit")]
    /\ pc' = [pc EXCEPT ![p] = "add_refresh"]
    /\ UNCHANGED <<arg, loc, ret, pre, nOpen, added, startups, serial, calls>>

\* session.refresh(new_book): a SELECT by primary key in a new transaction
AddBookRefresh(p) ==
    /\ pc[p] = "add_refresh"
    /\ sess' = [sess EXCEPT ![p] = Log([@ EXCEPT !.conn = TRUE], "refresh")]
    /\ LET row == GetBook(txn, loc[p].n)
       IN  IF row # {}
           THEN /\ ret' = [ret EXCEPT ![p] =
                      [kind |-> "book", val |-> CHOOSE b \in row : TRUE]]
                /\ pc' = [pc EXCEPT ![p] = "add_close"]
           ELSE \* InvalidRequestError: the row is gone
                /\ ret' = ret
                /\ pc' = [pc EXCEPT ![p] = "add_except"]
    /\ UNCHANGED <<db, txn, arg, loc, pre, nOpen, added, startups, serial, calls>>

\* except SQLAlchemyError: session.rollback(); raise
AddBookExcept(p) ==
    /\ pc[p] = "add_except"
    /\ txn' = Release(sess[p], db, txn)
    /\ sess' = [sess EXCEPT ![p] =
          Log([@ EXCEPT !.state = "ROLLED_BACK", !.conn = FALSE,
                        !.pending = <<>>], "rollback")]
    /\ ret' = [ret EXCEPT ![p] = Raised]
    /\ pc' = [pc EXCEPT ![p] = "add_close"]
    /\ UNCHANGED <<db, arg, loc, pre, nOpen, added, startups, serial, calls>>

AddBookClose(p) ==
    /\ Finally(p, "add_close")
    /\ added' = IF ret[p].kind = "book" THEN added \cup {ret[p].val} ELSE added

\* ---------------------------------------------------------------- get_books_by_author
GetBooksCall(p, author_id) ==
    /\ Enter(p, [NoArg EXCEPT !.op = "get_books_by_author",
                              !.author_id = author_id],
             OpenSession, "get_query")
    /\ UNCHANGED <<txn, startups>>

GetBooksQuery(p) ==
    /\ pc[p] = "get_query"
    /\ ret' = [ret EXCEPT ![p] =
          [kind |-> "books", val |-> BooksByAuthor(txn, arg[p].author_id)]]
    /\ sess' = [sess EXCEPT ![p] = Log([@ EXCEPT !.conn = TRUE], "query")]
    /\ pc' = [pc EXCEPT ![p] = "get_close"]
    /\ UNCHANGED <<db, txn, arg, loc, pre, nOpen, added, startups, serial, calls>>

GetBooksClose(p) == Finally(p, "get_close") /\ UNCHANGED added

\* ---------------------------------------------------------------- delete_book
DeleteCall(p, book_id) ==
    /\ Enter(p, [NoArg EXCEPT !.op = "delete_book", !.book_id = book_id],
             OpenSession, "del_get")
    /\ UNCHANGED <<txn, startups>>

\* book = session.get(Book, book_id); if book: session.delete(book)
DeleteGet(p) ==
    /\ pc[p] = "del_get"
    /\ LET row == GetBook(txn, arg[p].book_id)
       IN  IF row # {}
           THEN /\ sess' = [sess EXCEPT ![p] =
                      Log(Log([@ EXCEPT !.conn = TRUE], "get"), "delete")]
                /\ ret' = ret
                /\ pc' = [pc EXCEPT ![p] = "del_flush"]
           ELSE /\ sess' = [sess EXCEPT ![p] =
                      Log([@ EXCEPT !.conn = TRUE], "get")]
                /\ ret' = [ret EXCEPT ![p] = [kind |-> "bool", val |-> FALSE]]
                /\ pc' = [pc EXCEPT ![p] = "del_close"]
    /\ UNCHANGED <<db, txn, arg, loc, pre, nOpen, added, startups, serial, calls>>

\* session.commit(), first half: the flush sends the DELETE
DeleteFlush(p) ==
    /\ pc[p] = "del_flush"
    /\ txn' = DeleteBookRow(txn, arg[p].book_id)
    /\ sess' = [sess EXCEPT ![p] = Log(@, "flush")]
    /\ pc' = [pc EXCEPT ![p] = "del_commit"]
    /\ UNCHANGED <<db, arg, loc, ret, pre, nOpen, added, startups, serial, calls>>

\* session.commit(), second half; return True
DeleteCommit(p) ==
    /\ pc[p] = "del_commit"
    /\ LET d == CommitStore(db, txn)
       IN  db' = d /\ txn' = RollbackStore(d, txn)
    /\ sess' = [sess EXCEPT ![p] =
          Log([@ EXCEPT !.state = "COMMITTED", !.conn = FALSE], "commit")]
    /\ ret' = [ret EXCEPT ![p] = [kind |-> "bool", val |-> TRUE]]
    /\ added' = {b \in added : b.id # arg[p].book_id}
    /\ pc' = [pc EXCEPT ![p] = "del_close"]
    /\ UNCHANGED <<arg, loc, pre, nOpen, startups, serial, calls>>

DeleteClose(p) == Finally(p, "del_close") /\ UNCHANGED added

\* ---------------------------------------------------------------- create_users_transaction
User1 == [table |-> "users", a |-> "user1", b |-> "user1@example.com"]
User2 == [table |-> "users", a |-> "user2", b |-> "user2@example.com"]

\* session = SessionLocal(); with session.begin():
TxCall(p) ==
    /\ Enter(p, [NoArg EXCEPT !.op = "create_users_transaction"],
             Log(OpenSession, "begin"), "tx_add1")
    /\ UNCHANGED <<txn, startups>>

TxAddUser1(p) ==
    /\ pc[p] = "tx_add1"
    /\ sess' = [sess EXCEPT ![p] = Stage(@, User1)]
    /\ txn' = SqlOnAdd(txn, User1)
    /\ pc' = [pc EXCEPT ![p] = "tx_add2"]
    /\ UNCHANGED <<db, arg, loc, ret, pre, nOpen, added, startups, serial, calls>>

TxAddUser2(p) ==
    /\ pc[p] = "tx_add2"
    /\ sess' = [sess EXCEPT ![p] = Stage(@, User2)]
    /\ txn' = SqlOnAdd(txn, User2)
    /\ pc' = [pc EXCEPT ![p] = "tx_raise"]
    /\ UNCHANGED <<db, arg, loc, ret, pre, nOpen, added, startups, serial, calls>>

\* raise Exception(...); the with block rolls back; except: return the error
TxRaise(p) ==
    /\ pc[p] = "tx_raise"
    /\ LET e == ExitOnError(db, txn, sess[p])
       IN  db' = e.db /\ txn' = e.txn
    /\ sess' = [sess EXCEPT ![p] =
          Log([@ EXCEPT !.state = "ROLLED_BACK", !.conn = FALSE,
                        !.pending = <<>>], "rollback")]
    /\ ret' = [ret EXCEPT ![p] = [kind |-> "status", val |-> "error"]]
    /\ pc' = [pc EXCEPT ![p] = "tx_close"]
    /\ UNCHANGED <<arg, loc, pre, nOpen, added, startups, serial, calls>>

TxClose(p) == Finally(p, "tx_close") /\ UNCHANGED added

\* ---------------------------------------------------------------- startup_event
\* author = Author(...); author.books = [...]; session.add(author)
StartupCall(p) ==
    /\ startups < MaxStartups
    /\ Room(2)
    /\ \A q \in Procs : pc[q] = "idle"
    /\ Enter(p, [NoArg EXCEPT !.op = "startup_event"],
             Log(OpenSession, "add"), "st_author")
    /\ startups' = startups + 1
    /\ UNCHANGED txn

\* session.commit(): the flush inserts the author ...
StartupFlushAuthor(p) ==
    /\ pc[p] = "st_author"
    /\ txn' = InsertAuthor(txn, "Ahmatova")
    /\ loc' = [loc EXCEPT ![p].n = NextId(txn.authors)]
    /\ sess' = [sess EXCEPT ![p] = Log([@ EXCEPT !.conn = TRUE], "flush")]
    /\ pc' = [pc EXCEPT ![p] = "st_books"]
    /\ UNCHANGED <<db, arg, ret, pre, nOpen, added, startups, serial, calls>>

\* ... then its two books, with the author's new id
StartupFlushBooks(p) ==
    /\ pc[p] = "st_books"
    /\ txn' = InsertBook(InsertBook(txn, "Rekviem", loc[p].n),
                         "Poema bez geroya", loc[p].n)
    /\ sess' = [sess EXCEPT ![p] = Log(@, "flush")]
    /\ pc' = [pc EXCEPT ![p] = "st_commit"]
    /\ UNCHANGED <<db, arg, loc, ret, pre, nOpen, added, startups, serial, calls>>

StartupCommit(p) ==
    /\ pc[p] = "st_commit"
    /\ LET d == CommitStore(db, txn)
       IN  db' = d /\ txn' = RollbackStore(d, txn)
    /\ sess' = [sess EXCEPT ![p] =
          Log([@ EXCEPT !.state = "COMMITTED", !.conn = FALSE], "commit")]
    /\ pc' = [pc EXCEPT ![p] = "st_close"]
    /\ UNCHANGED <<arg, loc, ret, pre, nOpen, added, startups, serial, calls>>

StartupClose(p) == Finally(p, "st_close") /\ UNCHANGED added

\* ---------------------------------------------------------------- get_authors_lazy
LazyCall(p) ==
    /\ Enter(p, [NoArg EXCEPT !.op = "get_authors_lazy"],
             OpenSession, "lazy_authors")
    /\ UNCHANGED <<txn, startups>>

\* authors = session.query(Author).all()
LazyQueryAuthors(p) ==
    /\ pc[p] = "lazy_authors"
    /\ sess' = [sess EXCEPT ![p] = Log([@ EXCEPT !.conn = TRUE], "query")]
    /\ loc' = [loc EXCEPT ![p].todo = txn.authors]
    /\ IF txn.authors = {}
       THEN /\ ret' = [ret EXCEPT ![p] = [kind |-> "authors", val |-> {}]]
            /\ pc' = [pc EXCEPT ![p] = "lazy_close"]
       ELSE /\ ret' = ret
            /\ pc' = [pc EXCEPT ![p] = "lazy_books"]
    /\ UNCHANGED <<db, txn, arg, pre, nOpen, added, startups, serial, calls>>

\* a.books of the next author: one more SELECT
LazyAccessBooks(p) ==
    /\ pc[p] = "lazy_books"
    /\ LET a == CHOOSE x \in loc[p].todo :
                    \A y \in loc[p].todo : x.id <= y.id
           acc == loc[p].acc \cup {AuthorOut(a, LazyBooks(txn, a))}
           rest == loc[p].todo \ {a}
       IN  /\ loc' = [loc EXCEPT ![p].todo = rest, ![p].acc = acc]
           /\ IF rest = {}
              THEN /\ ret' = [ret EXCEPT ![p] =
                         [kind |-> "authors", val |-> acc]]
                   /\ pc' = [pc EXCEPT ![p] = "lazy_close"]
              ELSE /\ ret' = ret
                   /\ pc' = pc
    /\ sess' = [sess EXCEPT ![p] = Log(@, "query")]
    /\ UNCHANGED <<db, txn, arg, pre, nOpen, added, startups, serial, calls>>

LazyClose(p) == Finally(p, "lazy_close") /\ UNCHANGED added

\* ---------------------------------------------------------------- get_authors_eager
EagerCall(p) ==
    /\ Enter(p, [NoArg EXCEPT !.op = "get_authors_eager"],
             OpenSession, "eager_query")
    /\ UNCHANGED <<txn, startups>>

EagerQuery(p) ==
    /\ pc[p] = "eager_query"
    /\ sess' = [sess EXCEPT ![p] = Log([@ EXCEPT !.conn = TRUE], "query")]
    /\ ret' = [ret EXCEPT ![p] = [kind |-> "authors", val |-> EagerLoad(txn)]]
    /\ pc' = [pc EXCEPT ![p] = "eager_close"]
    /\ UNCHANGED <<db, txn, arg, loc, pre, nOpen, added, startups, serial, calls>>

EagerClose(p) == Finally(p, "eager_close") /\ UNCHANGED added

\* ---------------------------------------------------------------- get_authors_book_counts
CountsCall(p) ==
    /\ CanCall(p)
    /\ pc' = [pc EXCEPT ![p] = "counts_exec"]
    /\ arg' = [arg EXCEPT ![p] = [NoArg EXCEPT !.op = "get_authors_book_counts"]]
    /\ pre' = [pre EXCEPT ![p] = txn]
    /\ calls' = IF serial THEN calls ELSE calls + 1
    /\ UNCHANGED <<db, txn, sess, loc, ret, nOpen, added, startups, serial>>

\* with engine.connect() as connection: execute, then release the connection
CountsExecute(p) ==
    /\ pc[p] = "counts_exec"
    /\ ret' = [ret EXCEPT ![p] = [kind |-> "counts", val |-> BookCounts(txn)]]
    /\ txn' = RollbackStore(db, txn)
    /\ pc' = [pc EXCEPT ![p] = "done"]
    /\ UNCHANGED <<db, sess, arg, loc, pre, nOpen, added, startups, serial, calls>>

\* ---------------------------------------------------------------- specifications
Next ==
    \E p \in Procs :
        \/ \E t \in TitleInputs, a \in AuthorIdInputs : AddBookCall(p, t, a)
        \/ AddBookFlush(p)
        \/ AddBookCommit(p)
        \/ AddBookRefresh(p)
        \/ AddBookExcept(p)
        \/ AddBookClose(p)
        \/ \E a \in AuthorIdInputs : GetBooksCall(p, a)
        \/ GetBooksQuery(p)
        \/ GetBooksClose(p)
        \/ \E b \in BookIdInputs : DeleteCall(p, b)
        \/ DeleteGet(p)
        \/ DeleteFlush(p)
        \/ DeleteCommit(p)
        \/ DeleteClose(p)
        \/ TxCall(p)
        \/ TxAddUser1(p)
        \/ TxAddUser2(p)
        \/ TxRaise(p)
        \/ TxClose(p)
        \/ StartupCall(p)
        \/ StartupFlushAuthor(p)
        \/ StartupFlushBooks(p)
        \/ StartupCommit(p)
        \/ StartupClose(p)
        \/ LazyCall(p)
        \/ LazyQueryAuthors(p)
        \/ LazyAccessBooks(p)
        \/ LazyClose(p)
        \/ EagerCall(p)
        \/ EagerQuery(p)
        \/ EagerClose(p)
        \/ CountsCall(p)
        \/ CountsExecute(p)
        \/ Return(p)

Spec == Init /\ [][Next]_vars

SpecConc == InitConc /\ [][Next]_vars

TypeOK ==
    /\ \A b \in txn.books \cup db.books : b.id \in 1..MaxId
    /\ nOpen \in 0..Cardinality(Procs)
    /\ serial /\ (\A p \in Procs : pc[p] = "idle") => txn = db

\* ---------------------------------------------------------------- properties
Returned(p, op) == pc[p] = "done" /\ arg[p].op = op

\* what the session of q reads: every session works on the one pooled connection
Observes(q) == txn

\* C1: when create_users_transaction returns, it reports the error outcome,
\* neither user1 nor user2 is in the store, and users, authors and books are
\* exactly what they were when the call began.
C1_Atomicity ==
    \A p \in Procs : Returned(p, "create_users_transaction") =>
        /\ ret[p].kind = "status" /\ ret[p].val = "error"
        /\ db = pre[p]
        /\ txn = pre[p]
        /\ ~\E u \in db.users \cup txn.users : u.username \in {"user1", "user2"}

C1_Witness ==
    \E p \in Procs :
        /\ Returned(p, "create_users_transaction")
        /\ pre[p].books # {}
        /\ pre[p].authors # {}

C3_AddBookAtomic ==
    \A p \in Procs : Returned(p, "add_book") =>
        \/ /\ ret[p].kind = "book"
           /\ ret[p].val.title = arg[p].title
           /\ ret[p].val.author_id = arg[p].author_id
           /\ ret[p].val.id \notin {b.id : b \in pre[p].books}
           /\ db = [pre[p] EXCEPT !.books = @ \cup {ret[p].val}]
           /\ txn = db
        \/ /\ ret[p] = Raised
           /\ arg[p].title = NoTitle
           /\ db = pre[p]
           /\ txn = pre[p]

C3_Witness ==
    \E p \in Procs :
        /\ Returned(p, "add_book")
        /\ ret[p].kind = "book"
        /\ pre[p].books # {}
        /\ sess[p].state = "COMMITTED"

\* C4: when get_books_by_author(A) returns, the result is exactly the stored
\* books whose author_id is A (empty when there are none), and it holds
\* every book an earlier add_book returned for A that was not deleted since.
C4_RoundTrip ==
    \A p \in Procs : Returned(p, "get_books_by_author") =>
        /\ ret[p].kind = "books"
        /\ \A b \in db.books :
              b \in ret[p].val <=> b.author_id = arg[p].author_id
        /\ ret[p].val \subseteq db.books
        /\ \A b \in added : b.author_id = arg[p].author_id => b \in ret[p].val

C4_Witness ==
    \E p \in Procs :
        /\ Returned(p, "get_books_by_author")
        /\ \E b \in added : b.author_id = arg[p].author_id /\ b \in ret[p].val
        /\ \E b \in db.books : b.author_id # arg[p].author_id

\* C5: when delete_book(id) returns, it returned true exactly if a Book with
\* that id existed when the call began; if false the store is unchanged; if
\* true the store is the store of before without that one Book, which no
\* read sees any more, every other book, author and user unchanged.
C5_DeleteContract ==
    \A p \in Procs : Returned(p, "delete_book") =>
        LET existed == \E b \in pre[p].books : b.id = arg[p].book_id
        IN  /\ ret[p].kind = "bool"
            /\ ret[p].val = existed
            /\ ~existed => db = pre[p] /\ txn = pre[p]
            /\ existed =>
                  /\ db = [pre[p] EXCEPT
                             !.books = {b \in @ : b.id # arg[p].book_id}]
                  /\ txn = db

C5_Witness ==
    \E p \in Procs :
        /\ Returned(p, "delete_book")
        /\ ret[p].val = TRUE
        /\ db.books # {}
        /\ db.authors # {}

\* C6: on one store state the lazy and the eager read give the same authors
\* and, for each author, the same titles with the same multiplicities: what
\* get_authors_lazy returns is the eager load of the store it ran on, and
\* what get_authors_eager returns is the lazy load of it.
C6_LazyEagerEquivalent ==
    \A p \in Procs :
        /\ Returned(p, "get_authors_lazy") => ret[p].val = EagerLoad(pre[p])
        /\ Returned(p, "get_authors_eager") => ret[p].val = LazyLoad(pre[p])

C6_Witness ==
    \E p \in Procs :
        /\ Returned(p, "get_authors_eager")
        /\ \E a \in ret[p].val : DOMAIN a.books = {}
        /\ \E a \in ret[p].val : DOMAIN a.books # {}
        /\ \E b \in pre[p].books : b.author_id = NULL

\* C7: every stored Book whose author_id is set references a stored Author.
C7_ReferentialIntegrity ==
    \A b \in db.books :
        b.author_id # NULL => \E a \in db.authors : a.id = b.author_id

\* C8: get_authors_book_counts returns one row per author that has at least
\* one book, with that author's name and the number of books whose author_id
\* is the author's id, and no other row.
C8_OneRowPerAuthor ==
    \A p \in Procs : Returned(p, "get_authors_book_counts") =>
        LET with == {a \in pre[p].authors : BooksByAuthor(pre[p], a.id) # {}}
        IN  /\ Cardinality(ret[p].val) = Cardinality(with)
            /\ \A a \in with :
                  [author |-> a.name,
                   book_count |-> Cardinality(BooksByAuthor(pre[p], a.id))]
                      \in ret[p].val

\* C9: when add_book, get_books_by_author or delete_book returns, its session
\* was closed, once, as the last thing done with it, on every exit path; and
\* whenever no call is in flight no session is open.
RepoOps == {"add_book", "get_books_by_author", "delete_book"}

C9_SessionsClosed ==
    /\ \A p \in Procs : pc[p] = "done" /\ arg[p].op \in RepoOps =>
          /\ ~sess[p].open
          /\ ~sess[p].conn
          /\ sess[p].trace[Len(sess[p].trace)] = "close"
          /\ Cardinality({i \in DOMAIN sess[p].trace :
                             sess[p].trace[i] = "close"}) = 1
    /\ (\A p \in Procs : pc[p] \in {"idle", "done"}) => nOpen = 0

C9_Witness ==
    \E p \in Procs :
        /\ Returned(p, "add_book")
        /\ ret[p] = Raised
        /\ \E i \in DOMAIN sess[p].trace : sess[p].trace[i] = "refresh"
        /\ ~sess[p].open

\* C10: in add_book, delete_book and create_users_transaction, once the unit
\* of work has committed or rolled back nothing but its close is issued
\* against it.
C10_TerminalStates ==
    \A p \in Procs :
        arg[p].op \in {"add_book", "delete_book", "create_users_transaction"} =>
            \A i \in DOMAIN sess[p].trace, j \in DOMAIN sess[p].trace :
                i < j /\ sess[p].trace[i] \in {"commit", "rollback"} =>
                    sess[p].trace[j] = "close"

====
